---- MODULE Spec2Model ----
(***************************************************************************)
(* Model of ezgeom.py: the EzGeom builder, its rectangle and circle        *)
(* primitives and the geometry description (netgen SplineGeometry) they    *)
(* fill.  Coordinates are the caller's numbers scaled by 100 (-0.35 is     *)
(* -35); the code only compares coordinates for equality and, for          *)
(* circles, adds and subtracts the radius.                                  *)
(***************************************************************************)
EXTENDS Integers, Sequences, FiniteSets, TLC

VARIABLES
    rectangles,  \* self.rectangles, in insertion order
    circles,     \* self.circles, in insertion order
    geom,        \* self.geom: the points and segments appended so far
    calls,       \* how many times the caller has called make_geometry
    exc          \* the exception the last make_geometry call raised, or "none"

vars == <<rectangles, circles, geom, calls, exc>>

\* make_mesh only reads geom (self.geom.GenerateMesh()) and is left out.

(* ------------------------------ bounds -------------------------------- *)
MaxRects == 3
MaxCircles == 2
MaxCalls == 2

(* ------------------------------ inputs -------------------------------- *)
\* Coordinates of the sample usage (-2.0, -0.35, 2.0), scaled by 100.
Coord == {-200, -35, 200}

\* dout is "just a number" or a list: [isList, elems] keeps the runtime type
\* that add_segs tests; a number D is elems = <<D>>.
Scalar(d) == [isList |-> FALSE, elems |-> <<d>>]
List(ds) == [isList |-> TRUE, elems |-> ds]

\* Corner pairs (blpt, trpt) of positive width and height on the grid of
\* Coord: the sample usage's upper and lower rectangle, the four cells around
\* (-35, -35) and the whole square.
GridRects ==
    {<< <<-200, -35>>, <<200, 200>> >>, << <<-200, -200>>, <<200, -35>> >>,
     << <<-200, -200>>, <<-35, -35>> >>, << <<-35, -200>>, <<200, -35>> >>,
     << <<-200, -35>>, <<-35, 200>> >>, << <<-35, -35>>, <<200, 200>> >>,
     << <<-200, -200>>, <<200, 200>> >>}

\* A rectangle of zero width and one whose x coordinates are swapped
\* (clockwise corner order): add_rect accepts both.
OddRects ==
    {<< <<-200, -200>>, <<-200, 200>> >>, << <<200, -200>>, <<-200, 200>> >>}

\* Corner pairs added with a number as dout (the docstring's punches); the
\* others are added with a list of four.
PunchRects ==
    {<< <<-200, -200>>, <<200, 200>> >>, << <<-35, -35>>, <<200, 200>> >>}

RectInputs ==
    {[blpt |-> g[1], trpt |-> g[2], bnd |-> 10, din |-> 1,
      dout |-> List(<<5, 6, 7, 8>>)] : g \in (GridRects \cup OddRects) \ PunchRects}
    \cup
    {[blpt |-> g[1], trpt |-> g[2], bnd |-> 2, din |-> 0,
      dout |-> Scalar(3)] : g \in PunchRects}

\* The sample usage's two adjacent rectangles with a dout list of the right
\* and of a wrong length.
AnyDoutInputs ==
    {[blpt |-> g[1], trpt |-> g[2], bnd |-> 10, din |-> 1, dout |-> List(ds)] :
        g \in {<< <<-200, -35>>, <<200, 200>> >>, << <<-200, -200>>, <<200, -35>> >>},
        ds \in {<<5, 6, 7, 8>>, <<5, 6, 7>>, <<5, 6, 7, 8, 9>>}}

\* A circle whose bounding square has the grid's corners, so that its points
\* coincide with rectangle corners.
CircleInputs ==
    {[cenpt |-> <<0, 0>>, r |-> 200, bnd |-> 4, din |-> 0, dout |-> 1]}

(* ------------------------- geometry description ------------------------ *)
\* SplineGeometry(): no point, no segment.
SplineGeometry == [points |-> <<>>, segs |-> <<>>]

\* The identifier geom.AppendPoint returns: the point's 0-based index.
AppendPointId(g) == Len(g.points)

AppendPoint(g, pt) == [g EXCEPT !.points = Append(@, pt)]

\* geom.Append([kind, n...], bc=, leftdomain=, rightdomain=)
GeomAppend(g, kind, nums, bc, ld, rd) ==
    [g EXCEPT !.segs = Append(@, [kind |-> kind, nums |-> nums, bc |-> bc,
                                   leftdomain |-> ld, rightdomain |-> rd])]

(* ------------------------------ rectangle ------------------------------ *)
rectangle(blpt, trpt, bnd, din, dout) ==
    LET pts == <<blpt, <<trpt[1], blpt[2]>>, trpt, <<blpt[1], trpt[2]>> >>
    IN [pts |-> pts,
        segs |-> [i \in 1..4 |-> <<pts[i], pts[(i % 4) + 1]>>],
        nums |-> <<>>,
        bnd |-> bnd, din |-> din, dout |-> dout]

\* list.index: the first position (1-based) of x in seq, 0 when absent
\* (Python raises ValueError).
Index(seq, x) ==
    IF \E i \in 1..Len(seq) : seq[i] = x
    THEN CHOOSE i \in 1..Len(seq) :
            seq[i] = x /\ \A j \in 1..(i - 1) : seq[j] # x
    ELSE 0

has_pt(rect, pt) == \E i \in 1..Len(rect.pts) : rect.pts[i] = pt

\* Mutant of has_seg: compares (p1, p2) with seg, the reversal forgotten.
has_seg_same(rect, seg) ==
    \E i \in 1..Len(rect.segs) : <<rect.segs[i][1], rect.segs[i][2]>> = seg

has_seg(rect, seg) ==
    \E i \in 1..Len(rect.segs) : <<rect.segs[i][2], rect.segs[i][1]>> = seg

\* get_num: [exc, val]; pts.index raises ValueError, nums[idx] IndexError.
get_num(rect, pt) ==
    LET idx == Index(rect.pts, pt)
    IN IF idx = 0 THEN [exc |-> "ValueError", val |-> 0]
       ELSE IF idx > Len(rect.nums) THEN [exc |-> "IndexError", val |-> 0]
       ELSE [exc |-> "none", val |-> rect.nums[idx]]

\* Mutant of MatchPt: only the rectangle added last is consulted.
MatchPtLast(others, pt) ==
    IF Len(others) > 0 /\ has_pt(others[Len(others)], pt) THEN Len(others) ELSE 0

\* "for rect in others: if rect.has_pt(pt): match = True; break":
\* the position of the first match, 0 when there is none.
MatchPt(others, pt) ==
    IF \E j \in 1..Len(others) : has_pt(others[j], pt)
    THEN CHOOSE j \in 1..Len(others) :
            has_pt(others[j], pt) /\ \A k \in 1..(j - 1) : ~has_pt(others[k], pt)
    ELSE 0

MatchSeg(others, seg) == \E j \in 1..Len(others) : has_seg(others[j], seg)

\* add_points from corner i on: [self, geom, exc].
RECURSIVE add_points_from(_, _, _, _)
add_points_from(self, others, g, i) ==
    IF i > Len(self.pts) THEN [self |-> self, geom |-> g, exc |-> "none"]
    ELSE LET pt == self.pts[i]
             j == MatchPt(others, pt)
         IN IF j # 0
            THEN LET n == get_num(others[j], pt)
                 IN IF n.exc # "none"
                    THEN [self |-> self, geom |-> g, exc |-> n.exc]
                    ELSE add_points_from([self EXCEPT !.nums = Append(@, n.val)],
                                         others, g, i + 1)
            ELSE add_points_from([self EXCEPT !.nums = Append(@, AppendPointId(g))],
                                 others, AppendPoint(g, pt), i + 1)

add_points(self, others, g) == add_points_from(self, others, g, 1)

\* Mutant of EdgeDout: the list is read one edge further on.
EdgeDoutShifted(self, i) ==
    IF self.dout.isList
    THEN IF (i % 4) + 1 > Len(self.dout.elems) THEN [exc |-> "IndexError", val |-> 0]
         ELSE [exc |-> "none", val |-> self.dout.elems[(i % 4) + 1]]
    ELSE [exc |-> "none", val |-> self.dout.elems[1]]

\* "self.dout[i] if type(self.dout) == list else self.dout", i 1-based here:
\* [exc, val].
EdgeDout(self, i) ==
    IF self.dout.isList
    THEN IF i > Len(self.dout.elems) THEN [exc |-> "IndexError", val |-> 0]
         ELSE [exc |-> "none", val |-> self.dout.elems[i]]
    ELSE [exc |-> "none", val |-> self.dout.elems[1]]

\* add_segs from edge i on: [geom, exc].
RECURSIVE add_segs_from(_, _, _, _)
add_segs_from(self, others, g, i) ==
    IF i > Len(self.segs) THEN [geom |-> g, exc |-> "none"]
    ELSE LET seg == self.segs[i]
         IN IF MatchSeg(others, seg) THEN add_segs_from(self, others, g, i + 1)
            ELSE LET num1 == self.nums[Index(self.pts, seg[1])]
                     num2 == self.nums[Index(self.pts, seg[2])]
                     d == EdgeDout(self, i)
                 IN IF d.exc # "none" THEN [geom |-> g, exc |-> d.exc]
                    ELSE add_segs_from(self, others,
                            GeomAppend(g, "line", <<num1, num2>>, self.bnd,
                                       self.din, d.val),
                            i + 1)

\* Mutant of add_segs: match is set to False once, before the loop over the
\* edges, so that every edge after a suppressed one is skipped too.
RECURSIVE add_segs_sticky_from(_, _, _, _, _)
add_segs_sticky_from(self, others, g, i, match) ==
    IF i > Len(self.segs) THEN [geom |-> g, exc |-> "none"]
    ELSE LET seg == self.segs[i]
             m == match \/ MatchSeg(others, seg)
         IN IF m THEN add_segs_sticky_from(self, others, g, i + 1, m)
            ELSE LET num1 == self.nums[Index(self.pts, seg[1])]
                     num2 == self.nums[Index(self.pts, seg[2])]
                     d == EdgeDout(self, i)
                 IN IF d.exc # "none" THEN [geom |-> g, exc |-> d.exc]
                    ELSE add_segs_sticky_from(self, others,
                            GeomAppend(g, "line", <<num1, num2>>, self.bnd,
                                       self.din, d.val),
                            i + 1, m)

add_segs_sticky(self, others, g) == add_segs_sticky_from(self, others, g, 1, FALSE)

add_segs(self, others, g) == add_segs_from(self, others, g, 1)

\* rectangle.make_geometry: [self, geom, exc].
rectangle_make_geometry(self, others, g) ==
    LET p == add_points(self, others, g)
    IN IF p.exc # "none" THEN p
       ELSE LET s == add_segs(p.self, others, p.geom)
            IN [self |-> p.self, geom |-> s.geom, exc |-> s.exc]

(* -------------------------------- circle ------------------------------- *)
circle(cenpt, r, bnd, din, dout) ==
    LET cenX == cenpt[1]
        cenY == cenpt[2]
    IN [pts |-> << <<cenX + r, cenY>>, <<cenX + r, cenY + r>>, <<cenX, cenY + r>>,
                   <<cenX - r, cenY + r>>, <<cenX - r, cenY>>, <<cenX - r, cenY - r>>,
                   <<cenX, cenY - r>>, <<cenX + r, cenY - r>> >>,
        nums |-> <<>>,
        bnd |-> bnd, din |-> din, dout |-> dout]

\* "[geom.AppendPoint(*p) for p in self.pts]": the geometry after it.
RECURSIVE AppendPoints(_, _, _)
AppendPoints(g, pts, i) ==
    IF i > Len(pts) THEN g ELSE AppendPoints(AppendPoint(g, pts[i]), pts, i + 1)

\* The four spline3 segments, i = 0..3 in the code.
RECURSIVE AppendSplines(_, _, _)
AppendSplines(g, self, i) ==
    IF i > 3 THEN g
    ELSE AppendSplines(
            GeomAppend(g, "spline3",
                       <<self.nums[2 * i + 1], self.nums[2 * i + 2],
                         self.nums[((2 * i + 2) % 8) + 1]>>,
                       self.bnd, self.din, self.dout),
            self, i + 1)

\* Mutant of circle.make_geometry: a point whose coordinates are registered
\* already reuses that identifier, as a rectangle's corner does.
RECURSIVE circle_points_dedup(_, _, _)
circle_points_dedup(self, g, i) ==
    IF i > Len(self.pts) THEN [self |-> self, geom |-> g]
    ELSE LET pos == Index(g.points, self.pts[i])
         IN IF pos # 0
            THEN circle_points_dedup([self EXCEPT !.nums = Append(@, pos - 1)],
                                     g, i + 1)
            ELSE circle_points_dedup(
                    [self EXCEPT !.nums = Append(@, AppendPointId(g))],
                    AppendPoint(g, self.pts[i]), i + 1)

circle_make_geometry_dedup(self, g) ==
    LET r == circle_points_dedup([self EXCEPT !.nums = <<>>], g, 1)
    IN [self |-> r.self, geom |-> AppendSplines(r.geom, r.self, 0)]

\* circle.make_geometry: [self, geom].
circle_make_geometry(self, g) ==
    LET first == AppendPointId(g)
        new == [self EXCEPT !.nums = [k \in 1..Len(self.pts) |-> first + k - 1]]
    IN [self |-> new, geom |-> AppendSplines(AppendPoints(g, self.pts, 1), new, 0)]

(* -------------------------------- EzGeom ------------------------------- *)
\* Mutant of Others: every other rectangle, the later ones too.
OthersAll(rects, i) == SubSeq(rects, 1, i - 1) \o SubSeq(rects, i + 1, Len(rects))

\* self.rectangles[:i] (i 0-based in the code; the rectangle is rects[i]).
Others(rects, i) == SubSeq(rects, 1, i - 1)

\* "for i in range(len(self.rectangles))" from rectangle i on:
\* [rectangles, geom, exc].
RECURSIVE RectLoop(_, _, _)
RectLoop(rects, g, i) ==
    IF i > Len(rects) THEN [rectangles |-> rects, geom |-> g, exc |-> "none"]
    ELSE LET r == rectangle_make_geometry(rects[i], Others(rects, i), g)
             rects2 == [rects EXCEPT ![i] = r.self]
         IN IF r.exc # "none"
            THEN [rectangles |-> rects2, geom |-> r.geom, exc |-> r.exc]
            ELSE RectLoop(rects2, r.geom, i + 1)

\* "for circ in self.circles": [circles, geom].
RECURSIVE CircLoop(_, _, _)
CircLoop(circs, g, i) ==
    IF i > Len(circs) THEN [circles |-> circs, geom |-> g]
    ELSE LET c == circle_make_geometry(circs[i], g)
         IN CircLoop([circs EXCEPT ![i] = c.self], c.geom, i + 1)

\* EzGeom.make_geometry on a builder state: the state it leaves and the
\* exception it raised, if any.
MakeGeometry(rects, circs, g) ==
    LET a == RectLoop(rects, g, 1)
    IN IF a.exc # "none"
       THEN [rectangles |-> a.rectangles, circles |-> circs, geom |-> a.geom,
             exc |-> a.exc]
       ELSE LET b == CircLoop(circs, a.geom, 1)
            IN [rectangles |-> a.rectangles, circles |-> b.circles,
                geom |-> b.geom, exc |-> "none"]

Init ==
    /\ rectangles = <<>>
    /\ circles = <<>>
    /\ geom = SplineGeometry
    /\ calls = 0
    /\ exc = "none"

\* Shapes are added before make_geometry is called (the module docstring's
\* usage); the lists are capped by MaxRects and MaxCircles.
add_rect(blpt, trpt, bnd, din, dout) ==
    /\ calls = 0
    /\ Len(rectangles) < MaxRects
    /\ rectangles' = Append(rectangles, rectangle(blpt, trpt, bnd, din, dout))
    /\ UNCHANGED <<circles, geom, calls, exc>>

add_circle(cenpt, r, bnd, din, dout) ==
    /\ calls = 0
    /\ Len(circles) < MaxCircles
    /\ circles' = Append(circles, circle(cenpt, r, bnd, din, dout))
    /\ UNCHANGED <<rectangles, geom, calls, exc>>

make_geometry ==
    /\ calls < MaxCalls
    /\ \E m \in {MakeGeometry(rectangles, circles, geom)} :
          /\ rectangles' = m.rectangles
          /\ circles' = m.circles
          /\ geom' = m.geom
          /\ exc' = m.exc
    /\ calls' = calls + 1

AddRect == \E a \in RectInputs : add_rect(a.blpt, a.trpt, a.bnd, a.din, a.dout)

AddCircle == \E c \in CircleInputs : add_circle(c.cenpt, c.r, c.bnd, c.din, c.dout)

Next == AddRect \/ AddCircle \/ make_geometry

Spec == Init /\ [][Next]_vars

\* The same builder driven with dout lists of any length.
AddRectAnyDout ==
    \E a \in AnyDoutInputs : add_rect(a.blpt, a.trpt, a.bnd, a.din, a.dout)

NextAnyDout == AddRectAnyDout \/ AddCircle \/ make_geometry

SpecAnyDout == Init /\ [][NextAnyDout]_vars

(* ----------------------- reading the description ----------------------- *)
\* One make_geometry call has returned over the shapes added.
Finalized == calls = 1 /\ exc = "none"

\* Coordinates of a point identifier.
PointOf(id) == geom.points[id + 1]

LineEdges == {e \in 1..Len(geom.segs) : geom.segs[e].kind = "line"}

SplineEdges == {e \in 1..Len(geom.segs) : geom.segs[e].kind = "spline3"}

\* Line edges whose endpoints resolve to p->q or q->p.
EdgesBetween(p, q) ==
    {e \in LineEdges :
        LET a == PointOf(geom.segs[e].nums[1])
            b == PointOf(geom.segs[e].nums[2])
        IN (a = p /\ b = q) \/ (a = q /\ b = p)}

Range(seq) == {seq[i] : i \in 1..Len(seq)}

CircleIds == UNION {Range(circles[m].nums) : m \in 1..Len(circles)}

RectIds == UNION {Range(rectangles[k].nums) : k \in 1..Len(rectangles)}

\* Identifiers of the points registered by rectangles.
RectPointIds == (0..(Len(geom.points) - 1)) \ CircleIds

\* AppendPoint calls of rectangles for coordinate p.
RectAppends(p) == {id \in RectPointIds : PointOf(id) = p}

Positive(rect) == rect.pts[1][1] < rect.pts[3][1] /\ rect.pts[1][2] < rect.pts[3][2]

AllPositive == \A k \in 1..Len(rectangles) : Positive(rectangles[k])

\* The edges of a rectangle as unordered endpoint pairs.
Sides(rect) == {{rect.segs[i][1], rect.segs[i][2]} : i \in 1..Len(rect.segs)}

Owners(p) == {k \in 1..Len(rectangles) : has_pt(rectangles[k], p)}

Corners == UNION {Range(rectangles[k].pts) : k \in 1..Len(rectangles)}

(* -------------------------------- claims ------------------------------- *)
\* C1: two rectangles of positive width and height that share exactly one
\* full edge (either order): each shared endpoint is appended once, one line
\* edge joins them, 6 points and 7 line edges in total.
C1_SharedEdgeOnce ==
    (/\ Finalized
     /\ Len(rectangles) = 2
     /\ AllPositive
     /\ Cardinality(Sides(rectangles[1]) \cap Sides(rectangles[2])) = 1)
    => \A side \in Sides(rectangles[1]) \cap Sides(rectangles[2]) :
          /\ \A p \in side : Cardinality(RectAppends(p)) = 1
          /\ \A p \in side : \A q \in side \ {p} :
                Cardinality(EdgesBetween(p, q)) = 1
          /\ Cardinality(RectPointIds) = 6
          /\ Cardinality(LineEdges) = 7

\* C2: after one make_geometry call no edge is registered more than once in
\* either direction.
C2_NoEdgeTwice ==
    Finalized =>
        \A p \in Corners : \A q \in Corners : Cardinality(EdgesBetween(p, q)) <= 1

\* C3: with two or more rectangles of positive width and height, a corner
\* owned by several rectangles is appended once, by its first owner, and all
\* its owners record that one identifier.
C3_SharedCornerOneId ==
    (Finalized /\ AllPositive /\ Len(rectangles) >= 2) =>
        \A p \in Corners :
            Cardinality(Owners(p)) >= 2 =>
                LET first == CHOOSE k \in Owners(p) : \A j \in Owners(p) : k <= j
                    id == rectangles[first].nums[Index(rectangles[first].pts, p)]
                IN /\ Cardinality(RectAppends(p)) = 1
                   /\ PointOf(id) = p
                   /\ \A j \in 1..(first - 1) : id \notin Range(rectangles[j].nums)
                   /\ \A k \in Owners(p) :
                        /\ Len(rectangles[k].nums) = 4
                        /\ rectangles[k].nums[Index(rectangles[k].pts, p)] = id

C3_Witness ==
    /\ Finalized /\ AllPositive /\ Len(rectangles) = 3
    /\ \E p \in Corners : Cardinality(Owners(p)) = 3
    /\ \E p \in Corners : Owners(p) = {1, 3}

\* C10: every edge of every rectangle is registered at least once, in one
\* direction or the other.
C10_NoEdgeLost ==
    Finalized =>
        \A k \in 1..Len(rectangles) : \A i \in 1..4 :
            EdgesBetween(rectangles[k].segs[i][1], rectangles[k].segs[i][2]) # {}

C10_Witness ==
    /\ Finalized
    /\ \E k \in 1..Len(rectangles) : \E i \in 1..4 :
          /\ MatchSeg(SubSeq(rectangles, 1, k - 1), rectangles[k].segs[i])
          /\ EdgesBetween(rectangles[k].segs[i][1], rectangles[k].segs[i][2]) # {}
    /\ \E k \in 1..Len(rectangles) : ~Positive(rectangles[k])

\* The sample usage's two adjacent rectangles, finalized on their own.
C4_Scenario ==
    /\ Finalized
    /\ circles = <<>>
    /\ Len(rectangles) = 2
    /\ rectangles[1].pts[1] = <<-200, -35>> /\ rectangles[1].pts[3] = <<200, 200>>
    /\ rectangles[2].pts[1] = <<-200, -200>> /\ rectangles[2].pts[3] = <<200, -35>>

\* C4 (as claimed): the two rectangles give exactly 8 distinct points and
\* their shared edge once.
C4_EightPoints ==
    C4_Scenario =>
        /\ Len(geom.points) = 8
        /\ Cardinality(Range(geom.points)) = 8
        /\ Cardinality(EdgesBetween(<<-200, -35>>, <<200, -35>>)) = 1

\* C4 (amended): the two rectangles give exactly 6 distinct points (4 of the
\* first, 2 new ones of the second) and their shared edge once.
C4_SixPoints ==
    C4_Scenario =>
        /\ Len(geom.points) = 6
        /\ Cardinality(Range(geom.points)) = 6
        /\ Cardinality(EdgesBetween(<<-200, -35>>, <<200, -35>>)) = 1

C4_Witness == C4_Scenario /\ Cardinality(LineEdges) = 7

\* The rectangles as add_rect left them.
Fresh(rects) == [k \in 1..Len(rects) |-> [rects[k] EXCEPT !.nums = <<>>]]

IsPrefix(a, b) == Len(a) <= Len(b) /\ SubSeq(b, 1, Len(a)) = a

\* C5: the first k rectangles are registered as they are when no rectangle
\* follows them: same AppendPoint calls, same nums, same line edges.
C5_PrefixIndependent ==
    calls = 1 =>
        \A k \in 0..Len(rectangles) :
            LET alone == MakeGeometry(SubSeq(Fresh(rectangles), 1, k), <<>>,
                                      SplineGeometry)
            IN alone.exc = "none" =>
                /\ SubSeq(rectangles, 1, k) = alone.rectangles
                /\ IsPrefix(alone.geom.points, geom.points)
                /\ IsPrefix(alone.geom.segs, geom.segs)

C5_Witness ==
    /\ Finalized
    /\ Len(rectangles) = 3
    /\ \E i \in 1..4 : has_seg(rectangles[3], rectangles[1].segs[i])
    /\ \E i \in 1..4 : has_pt(rectangles[2], rectangles[1].pts[i])
    /\ Len(rectangles[1].nums) = 4

\* Edge i of rectangle k is the reverse of an edge of an earlier rectangle.
Suppressed(k, i) ==
    \E j \in 1..(k - 1) : \E m \in 1..4 :
        /\ rectangles[j].segs[m][1] = rectangles[k].segs[i][2]
        /\ rectangles[j].segs[m][2] = rectangles[k].segs[i][1]

\* The line edge of edge i of rectangle k, tagged by the edge's own index.
TaggedEdge(k, i) ==
    LET rect == rectangles[k]
    IN [kind |-> "line",
        nums |-> <<rect.nums[Index(rect.pts, rect.segs[i][1])],
                   rect.nums[Index(rect.pts, rect.segs[i][2])]>>,
        bc |-> rect.bnd,
        leftdomain |-> rect.din,
        rightdomain |-> IF rect.dout.isList THEN rect.dout.elems[i]
                        ELSE rect.dout.elems[1]]

RECURSIVE TaggedEdges(_)
TaggedEdges(n) ==
    IF n = 0 THEN <<>>
    ELSE LET k == ((n - 1) \div 4) + 1
             i == ((n - 1) % 4) + 1
         IN TaggedEdges(n - 1) \o
            (IF Suppressed(k, i) THEN <<>> ELSE <<TaggedEdge(k, i)>>)

IsLine(e) == e.kind = "line"

\* C6: the line edges are, rectangle by rectangle and edge by edge, the edges
\* that are not suppressed, each with bc = bnd, leftdomain = din and
\* rightdomain d_i of its own index i (or the number D).
C6_EdgeTags ==
    Finalized => SelectSeq(geom.segs, IsLine) = TaggedEdges(4 * Len(rectangles))

C6_Witness ==
    /\ Finalized
    /\ \E k \in 1..Len(rectangles) :
          /\ rectangles[k].dout.isList
          /\ Suppressed(k, 1) /\ Suppressed(k, 2)
          /\ ~Suppressed(k, 3) /\ ~Suppressed(k, 4)
    /\ \E k \in 1..Len(rectangles) :
          ~rectangles[k].dout.isList /\ \A i \in 1..4 : ~Suppressed(k, i)

\* The spline3 edges whose first identifier is one of circle m's.
SplinesOf(m) ==
    LET Mine(e) == e.kind = "spline3" /\ e.nums[1] \in Range(circles[m].nums)
    IN SelectSeq(geom.segs, Mine)

\* C7: every circle gets 8 fresh points of its own and 4 spline3 edges over
\* its points (0,1,2), (2,3,4), (4,5,6), (6,7,0) with its bnd, din and dout.
C7_CircleFresh ==
    Finalized =>
        /\ Len(geom.points) = Cardinality(RectIds) + 8 * Len(circles)
        /\ Cardinality(SplineEdges) = 4 * Len(circles)
        /\ \A m \in 1..Len(circles) :
            LET c == circles[m]
            IN /\ Len(c.nums) = 8
               /\ Cardinality(Range(c.nums)) = 8
               /\ \A i \in 1..8 : PointOf(c.nums[i]) = c.pts[i]
               /\ Range(c.nums) \cap RectIds = {}
               /\ \A o \in 1..Len(circles) :
                    o # m => Range(c.nums) \cap Range(circles[o].nums) = {}
               /\ SplinesOf(m) =
                    [i \in 1..4 |->
                        [kind |-> "spline3",
                         nums |-> <<c.nums[2 * i - 1], c.nums[2 * i],
                                    c.nums[((2 * i) % 8) + 1]>>,
                         bc |-> c.bnd, leftdomain |-> c.din,
                         rightdomain |-> c.dout]]

C7_Witness ==
    /\ Finalized
    /\ Len(circles) = 2
    /\ Len(rectangles) >= 1
    /\ \E i \in 1..8 : has_pt(rectangles[1], circles[2].pts[i])
    /\ Cardinality(SplineEdges) = 8

\* C8: a second make_geometry call registers nothing: the description and
\* every shape's nums stay as the first call left them.
C8_SecondCallNoEffect ==
    [][(calls = 1 /\ calls' = 2) =>
          (geom' = geom /\ rectangles' = rectangles /\ circles' = circles)]_vars

WellFormedDout(d) == ~d.isList \/ Len(d.elems) = 4

\* C9: a dout that is neither a number nor a list of four never gets into the
\* builder, and make_geometry never fails on one.
C9_MalformedDoutRejected ==
    /\ \A k \in 1..Len(rectangles) : WellFormedDout(rectangles[k].dout)
    /\ exc = "none"

====
